---- MODULE Spec2Model ----
(***************************************************************************)
(* A model of pympress' software laser pointer (pympress/pointer.py) and   *)
(* of the base media overlay (pympress/media_overlays/base.py).            *)
(*                                                                         *)
(* Floating point values are modelled exactly: a pointer coordinate is a   *)
(* reduced fraction <<numerator, denominator>>, a relative margin is an    *)
(* integer number of 1/MarginDen, a time is an integer number of 1/TimeDen *)
(* seconds.  Strings produced by str.format are sequences of characters.   *)
(***************************************************************************)
EXTENDS Integers, Sequences, FiniteSets, TLC

\* ------------------------------------------------------------------ bounds
\* Event coordinates range over -1..MaxCoord (an event may lie left of or
\* above the widget, or beyond its far edges), widget sizes over 1..MaxSize.
MaxCoord == 1
MaxSize == 2

\* ------------------------------------------------------------- pointer.py
POINTER_HIDE == 0
POINTER_SHOW == 1
POINTERMODE_CONTINEOUS == 1
POINTERMODE_MANUAL == 0
POINTERMODE_DISABLED == -1

VARIABLES
    show_pointer,   \* Pointer.show_pointer
    pointer_mode,   \* Pointer.pointer_mode
    pointer_pos,    \* Pointer.pointer_pos, a pair of fractions
    pointer,        \* Pointer.pointer: the name of the icon that is loaded
    config,         \* the 'presenter' section of the Config object
    cursor,         \* the cursor extras.Cursor.set_cursor left on each widget
    mapped,         \* whether p_da_cur.get_window() is set (windows mapped)
    redraws,        \* calls of redraw_current_slide made by the last handler
    event,          \* the coordinates and widget size the last handler read
    call,           \* the last handler that ran, with its arguments
    ret,            \* what it returned
    err             \* the exception it raised, or "none"

pvars == <<show_pointer, pointer_mode, pointer_pos, pointer, config, cursor,
           mapped, redraws, event>>

\* The state of the media overlay (media_overlays/base.py).
VARIABLES
    relative_page_margins,  \* VideoOverlay.relative_page_margins
    relative_margins,       \* VideoOverlay.relative_margins
    attached,       \* media_overlay.get_parent() is the parent Gtk.Overlay
    visible,        \* media_overlay's visible flag (Gtk.Widget show / hide)
    margin,         \* media_overlay.props.margin_*, in 1/MarginDen pixels
    alloc,          \* the parent's allocated <<width, height>>
    playing,        \* the backend is playing
    effects,        \* the toolkit and backend calls of the last handler
    maxval,         \* VideoOverlay.maxval, in 1/TimeDen seconds
    time_format,    \* VideoOverlay.time_format, a sequence of tokens
    progress,       \* the Gtk.Scale: its value, range and increments
    label,          \* the last string format_millis returned
    set_time_calls, \* the values the last handler called set_time with
    py3             \* the interpreter is Python 3 (round() differs from 2)

ovars == <<relative_page_margins, relative_margins, attached, visible,
           margin, alloc, playing, effects>>
tvars == <<maxval, time_format, progress, label, set_time_calls, py3>>

\* Names of the mode radio items without their 'pointermode_' prefix, as
\* change_pointermode strips it; "None" is the absent argument.
ModeNames == {"continous", "manual", "none"}
ModeArgs == ModeNames \cup {"None"}
\* Names of the colour radio items, and names that no icon has.
IconNames == {"pointer_red", "pointer_green", "pointer_blue"}
RadioNames == IconNames \cup {"pointer_yellow", "pointer_Red", "pointer_"}
\* widget.get_name()[len('pointer_'):]
StripPointer(name) ==
    CASE name = "pointer_red" -> "red"
      [] name = "pointer_green" -> "green"
      [] name = "pointer_blue" -> "blue"
      [] name = "pointer_yellow" -> "yellow"
      [] name = "pointer_Red" -> "Red"
      [] OTHER -> ""
\* The widgets the UI connects toggle_pointer to.
Widgets == {"p_da_cur", "c_da"}
EventTypes == {"BUTTON_PRESS", "BUTTON_RELEASE"}
Coords == -1 .. MaxCoord
Sizes == 1 .. MaxSize

Abs(n) == IF n < 0 THEN -n ELSE n

RECURSIVE Gcd(_, _)
Gcd(a, b) == IF b = 0 THEN a ELSE Gcd(b, a % b)

\* The exact value of the float division n / d (d > 0), as a reduced fraction.
Frac(n, d) ==
    LET g == Gcd(Abs(n), d) IN <<n \div g, d \div g>>

NoCall ==
    [name |-> "__init__", arg |-> "", active |-> FALSE, widget |-> "",
     type |-> "", ctrl |-> FALSE, val |-> 0]

\* No coordinates read: event.get_coords() was not called.
NoEvent == [ex |-> 0, ey |-> 0, ww |-> 0, wh |-> 0]

\* A slip: 'continous' sets the mode and leaves the pointer as it was.
ActivatedShow_ContinuousKeeps(mode, old) ==
    IF mode = "continous" THEN old
    ELSE IF mode = "manual" THEN POINTER_HIDE
    ELSE IF mode = "none" THEN POINTER_HIDE
    ELSE old

\* A slip: 'none' disables the pointer without hiding it.
ActivatedShow_NoneKeeps(mode, old) ==
    IF mode = "continous" THEN POINTER_SHOW
    ELSE IF mode = "manual" THEN POINTER_HIDE
    ELSE old

\* A slip: 'none' taken for the manual mode.
ActivatedMode_NoneManual(mode, old) ==
    IF mode = "continous" THEN POINTERMODE_CONTINEOUS
    ELSE IF mode = "manual" THEN POINTERMODE_MANUAL
    ELSE IF mode = "none" THEN POINTERMODE_MANUAL
    ELSE old

\* Pointer.activate_pointermode: the two attributes it leaves.
ActivatedShow(mode, old) ==
    IF mode = "continous" THEN POINTER_SHOW
    ELSE IF mode = "manual" THEN POINTER_HIDE
    ELSE IF mode = "none" THEN POINTER_HIDE
    ELSE old

ActivatedMode(mode, old) ==
    IF mode = "continous" THEN POINTERMODE_CONTINEOUS
    ELSE IF mode = "manual" THEN POINTERMODE_MANUAL
    ELSE IF mode = "none" THEN POINTERMODE_DISABLED
    ELSE old

\* Pointer.activate_pointermode(mode)
activate_pointermode(mode) ==
    /\ show_pointer' = ActivatedShow(mode, show_pointer)
    /\ pointer_mode' = ActivatedMode(mode, pointer_mode)
    /\ IF mapped
       THEN /\ cursor' = [cursor EXCEPT !["p_da_cur"] =
                            IF pointer_mode' = POINTERMODE_CONTINEOUS
                            THEN "invisible" ELSE "parent"]
            /\ redraws' = 1
       ELSE /\ cursor' = cursor
            /\ redraws' = 0

\* A slip: the width and the height taken for each other.
track_pointer_Swapped(show) ==
    IF show = POINTER_SHOW
    THEN \E ex \in Coords, ey \in Coords, ww \in Sizes, wh \in Sizes :
            /\ event' = [ex |-> ex, ey |-> ey, ww |-> ww, wh |-> wh]
            /\ pointer_pos' = <<Frac(ex, wh), Frac(ey, ww)>>
            /\ redraws' = 1
            /\ ret' = TRUE
    ELSE /\ event' = NoEvent
         /\ pointer_pos' = pointer_pos
         /\ redraws' = 0
         /\ ret' = FALSE

\* Pointer.track_pointer(widget, event), run with show_pointer = show.  The
\* event's coordinates and the widget's size are inputs, read (and recorded in
\* `event`) only on the branch that reads them.
track_pointer(show) ==
    IF show = POINTER_SHOW
    THEN \E ex \in Coords, ey \in Coords, ww \in Sizes, wh \in Sizes :
            /\ event' = [ex |-> ex, ey |-> ey, ww |-> ww, wh |-> wh]
            /\ pointer_pos' = <<Frac(ex, ww), Frac(ey, wh)>>
            /\ redraws' = 1
            /\ ret' = TRUE
    ELSE /\ event' = NoEvent
         /\ pointer_pos' = pointer_pos
         /\ redraws' = 0
         /\ ret' = FALSE

\* A slip: the colour name compared without its case.
load_pointer_ok_AnyCase(name) ==
    name \in {"pointer_red", "pointer_green", "pointer_blue", "pointer_Red"}

\* Pointer.load_pointer(name): whether the name is accepted.
load_pointer_ok(name) ==
    name \in {"pointer_red", "pointer_green", "pointer_blue"}

\* Pointer.__init__: the class attributes, then activate_pointermode of the
\* persisted mode (the windows are not mapped yet) and load_pointer of the
\* persisted colour.
InitPointer(default_mode, default_color) ==
        /\ config = [pointer_mode |-> default_mode,
                     pointer |-> StripPointer(default_color)]
        /\ show_pointer = ActivatedShow(default_mode, POINTER_HIDE)
        /\ pointer_mode = ActivatedMode(default_mode, POINTERMODE_MANUAL)
        /\ pointer_pos = <<Frac(1, 2), Frac(1, 2)>>
        /\ pointer = default_color
        /\ cursor = [w \in Widgets |-> "parent"]
        /\ mapped = FALSE
        /\ redraws = 0
        /\ event = NoEvent
        /\ call = NoCall
        /\ ret = "none"
        /\ err = "none"

\* The windows get mapped: from then on p_da_cur.get_window() is set and the
\* widgets receive events.
MapWindows ==
    /\ ~mapped
    /\ mapped' = TRUE
    /\ call' = [NoCall EXCEPT !.name = "map"]
    /\ ret' = "none"
    /\ err' = "none"
    /\ redraws' = 0
    /\ event' = NoEvent
    /\ UNCHANGED <<show_pointer, pointer_mode, pointer_pos, pointer, config,
                   cursor>>
    /\ UNCHANGED <<ovars, tvars>>

\* change_pointer(widget): the radio item `name`, active or not.
ChangePointer ==
    \E name \in RadioNames, active \in BOOLEAN :
        /\ call' = [NoCall EXCEPT !.name = "change_pointer", !.arg = name,
                                  !.active = active]
        /\ IF ~active
           THEN UNCHANGED <<pointer, config>> /\ err' = "none"
           ELSE IF load_pointer_ok(name)
           THEN /\ pointer' = name
                /\ config' = [config EXCEPT !.pointer = StripPointer(name)]
                /\ err' = "none"
           ELSE UNCHANGED <<pointer, config>> /\ err' = "ValueError"
        /\ ret' = "none"
        /\ redraws' = 0
        /\ event' = NoEvent
        /\ UNCHANGED <<show_pointer, pointer_mode, pointer_pos, cursor,
                       mapped>>
        /\ UNCHANGED <<ovars, tvars>>

\* activate_pointermode(mode), called directly (by the UI without a mode
\* once the windows are mapped).
ActivatePointermode ==
    \E mode \in ModeArgs :
        /\ call' = [NoCall EXCEPT !.name = "activate_pointermode",
                                  !.arg = mode]
        /\ activate_pointermode(mode)
        /\ ret' = "none"
        /\ err' = "none"
        /\ event' = NoEvent
        /\ UNCHANGED <<pointer_pos, pointer, config, mapped>>
        /\ UNCHANGED <<ovars, tvars>>

\* A slip: the mode activated but not written to the configuration.
ChangePointermode_NotPersisted ==
    \E mode \in ModeNames, active \in BOOLEAN :
        /\ call' = [NoCall EXCEPT !.name = "change_pointermode",
                                  !.arg = mode, !.active = active]
        /\ IF active
           THEN /\ config' = config
                /\ activate_pointermode(mode)
           ELSE /\ redraws' = 0
                /\ UNCHANGED <<config, show_pointer, pointer_mode, cursor>>
        /\ ret' = "none"
        /\ err' = "none"
        /\ event' = NoEvent
        /\ UNCHANGED <<pointer_pos, pointer, mapped>>
        /\ UNCHANGED <<ovars, tvars>>

\* change_pointermode(widget): the radio item pointermode_<mode>.
ChangePointermode ==
    \E mode \in ModeNames, active \in BOOLEAN :
        /\ call' = [NoCall EXCEPT !.name = "change_pointermode",
                                  !.arg = mode, !.active = active]
        /\ IF active
           THEN /\ config' = [config EXCEPT !.pointer_mode = mode]
                /\ activate_pointermode(mode)
           ELSE /\ redraws' = 0
                /\ UNCHANGED <<config, show_pointer, pointer_mode, cursor>>
        /\ ret' = "none"
        /\ err' = "none"
        /\ event' = NoEvent
        /\ UNCHANGED <<pointer_pos, pointer, mapped>>
        /\ UNCHANGED <<ovars, tvars>>

\* track_pointer(widget, event) on a motion event.
TrackPointer ==
    /\ mapped
    /\ call' = [NoCall EXCEPT !.name = "track_pointer",
                              !.type = "MOTION_NOTIFY"]
    /\ track_pointer(show_pointer)
    /\ err' = "none"
    /\ UNCHANGED <<show_pointer, pointer_mode, pointer, config, cursor,
                   mapped>>
    /\ UNCHANGED <<ovars, tvars>>

\* A slip: the modifier is not looked at.
ToggleBranch_NoCtrl(mode, show, type, ctrl) ==
    IF mode = POINTERMODE_DISABLED THEN "ignore"
    ELSE IF mode = POINTERMODE_CONTINEOUS THEN "ignore"
    ELSE IF type = "BUTTON_PRESS" THEN "press"
    ELSE IF show = POINTER_SHOW /\ type = "BUTTON_RELEASE" THEN "release"
    ELSE "ignore"

\* A slip: the continuous mode is not told from the manual one.
ToggleBranch_NoContinuous(mode, show, type, ctrl) ==
    IF mode = POINTERMODE_DISABLED THEN "ignore"
    ELSE IF ctrl /\ type = "BUTTON_PRESS" THEN "press"
    ELSE IF show = POINTER_SHOW /\ type = "BUTTON_RELEASE" THEN "release"
    ELSE "ignore"

\* toggle_pointer(widget, event): the branch of the handler an event takes.
\* "ignore": one of its three `return False`; "press": the ctrl + press
\* branch; "release": the release branch.
ToggleBranch(mode, show, type, ctrl) ==
    IF mode = POINTERMODE_DISABLED THEN "ignore"
    ELSE IF mode = POINTERMODE_CONTINEOUS THEN "ignore"
    ELSE IF ctrl /\ type = "BUTTON_PRESS" THEN "press"
    ELSE IF show = POINTER_SHOW /\ type = "BUTTON_RELEASE" THEN "release"
    ELSE "ignore"

\* toggle_pointer(widget, event) on a button event of `widget`.
TogglePointerOn(widget) ==
    \E type \in EventTypes, ctrl \in BOOLEAN :
        LET branch == ToggleBranch(pointer_mode, show_pointer, type, ctrl) IN
        /\ mapped
        /\ call' = [NoCall EXCEPT !.name = "toggle_pointer",
                                  !.widget = widget, !.type = type,
                                  !.ctrl = ctrl]
        /\ CASE branch = "press" ->
                  /\ show_pointer' = POINTER_SHOW
                  /\ cursor' = [cursor EXCEPT ![widget] = "invisible"]
                  /\ track_pointer(POINTER_SHOW)
             [] branch = "release" ->
                  /\ show_pointer' = POINTER_HIDE
                  /\ cursor' = [cursor EXCEPT ![widget] = "parent"]
                  /\ redraws' = 1
                  /\ ret' = TRUE
                  /\ event' = NoEvent
                  /\ UNCHANGED pointer_pos
             [] OTHER ->
                  /\ ret' = FALSE
                  /\ redraws' = 0
                  /\ event' = NoEvent
                  /\ UNCHANGED <<show_pointer, cursor, pointer_pos>>
        /\ err' = "none"
        /\ UNCHANGED <<pointer_mode, pointer, config, mapped>>
        /\ UNCHANGED <<ovars, tvars>>

\* toggle_pointer(widget, event) on a button event of any widget.
TogglePointer == \E widget \in Widgets : TogglePointerOn(widget)

\* ------------------------------------------------ media_overlays/base.py
\* Relative margins are whole numbers of 1/MarginDen of the page or slide,
\* times whole numbers of 1/TimeDen seconds, up to MaxTime units above each
\* second of BaseSecs.  The parent's size ranges over 1..MaxAlloc pixels.
MarginDen == 2
MaxAlloc == 2
TimeDen == 4
MaxTime == 4

PageTypes == {"FULL", "LEFT", "RIGHT"}
\* A media rectangle may reach one unit beyond the page: a negative margin.
Margins == -1 .. MarginDen
Allocs == (1 .. MaxAlloc) \X (1 .. MaxAlloc)
\* The seconds around which times are drawn: the start, the minute boundary
\* and a time past two minutes.
BaseSecs == {0, 59, 124}
Times == {b * TimeDen + q : b \in BaseSecs, q \in 0 .. MaxTime}
\* A backend that does not know the length yet reports a negative one.
MaxTimes == Times \cup {-TimeDen}

\* PdfPage.to_screen(x, y, x2, y2): page coordinates to coordinates in the
\* part of the page that is displayed.
to_screen_point(page_type, x, y) ==
    IF page_type = "RIGHT" THEN <<x * 2 - MarginDen, y>>
    ELSE IF page_type = "LEFT" THEN <<x * 2, y>>
    ELSE <<x, y>>

to_screen(page_type, m) ==
    to_screen_point(page_type, m[1], m[2])
        \o to_screen_point(page_type, m[3], m[4])

Min4(m) ==
    LET lo(a, b) == IF a < b THEN a ELSE b IN lo(lo(m[1], m[2]), lo(m[3], m[4]))

\* VideoOverlay.is_shown()
is_shown(att) == att

\* A slip: resize() without its guard.
resize_Unguarded(shown, old, pw, ph, rm) ==
    [left |-> pw * rm[1], right |-> pw * rm[3],
     bottom |-> ph * rm[4], top |-> ph * rm[2]]

\* VideoOverlay.resize(), run when is_shown() = shown: the margins it leaves
\* on media_overlay.
resize(shown, old, pw, ph, rm) ==
    IF ~shown THEN old
    ELSE [left |-> pw * rm[1], right |-> pw * rm[3],
          bottom |-> ph * rm[4], top |-> ph * rm[2]]

\* The toolkit calls resize() makes.
resize_effects(shown) == IF ~shown THEN <<>> ELSE <<"set_margins">>

\* do_stop() of a backend: it stops the playback.
do_stop(p) == FALSE

\* Python's divmod(n, 60)
divmod60(n) == <<n \div 60, n % 60>>

\* Python's round(x) of x = n / TimeDen: half away from zero in Python 2,
\* half to even in Python 3.
round(n, three) ==
    LET f == n \div TimeDen
        twice == 2 * (n - f * TimeDen)
    IN  IF twice < TimeDen THEN f
        ELSE IF twice > TimeDen THEN f + 1
        ELSE IF three THEN (IF f % 2 = 0 THEN f ELSE f + 1)
        ELSE (IF n >= 0 THEN f + 1 ELSE f)

DigitChar(d) == <<"0", "1", "2", "3", "4", "5", "6", "7", "8", "9">>[d + 1]

RECURSIVE Decimal(_)
Decimal(n) ==
    IF n < 10 THEN <<DigitChar(n)>>
    ELSE Decimal(n \div 10) \o <<DigitChar(n % 10)>>

\* str.format of an integer with the format specs '01' and '02': zero padded
\* to the width, the sign counted in it.
Format01(n) == IF n < 0 THEN <<"-">> \o Decimal(-n) ELSE Decimal(n)

\* A slip: '{:1}' for the seconds, which pads nothing.
Format02_NoPad(n) == Format01(n)

Format02(n) == IF 0 <= n /\ n < 10 THEN <<"0">> \o Decimal(n) ELSE Format01(n)

\* The class attribute time_format = '{:01}:{:02}'
DefaultFormat == <<"{:01}", ":", "{:02}">>

\* time_format.format(a, b): the replacement fields take a, then b.
RECURSIVE FormatFields(_, _)
FormatFields(fmt, args) ==
    IF fmt = <<>> THEN <<>>
    ELSE IF Head(fmt) = "{:01}"
         THEN Format01(Head(args)) \o FormatFields(Tail(fmt), Tail(args))
    ELSE IF Head(fmt) = "{:02}"
         THEN Format02(Head(args)) \o FormatFields(Tail(fmt), Tail(args))
    ELSE <<Head(fmt)>> \o FormatFields(Tail(fmt), args)

\* VideoOverlay.format_millis(sc, prog)
format_millis(fmt, prog, three) ==
    FormatFields(fmt, divmod60(round(prog, three)))

\* A slip: the length truncated, int(self.maxval), instead of rounded.
range_sec_Truncated(max_time, three) ==
    IF 2 * max_time > TimeDen THEN max_time \div TimeDen ELSE 1

\* VideoOverlay.update_range: the seconds shown as the total.
range_sec(max_time, three) ==
    IF 2 * max_time > TimeDen THEN round(max_time, three) ELSE 1

\* VideoOverlay.update_range: the time format it leaves,
\* '{{:01}}:{{:02}} / {:01}:{:02}'.format(*divmod(int(sec), 60))
range_format(max_time, three) ==
    <<"{:01}", ":", "{:02}", " ", "/", " ">>
        \o FormatFields(DefaultFormat, divmod60(range_sec(max_time, three)))

Least(a, b) == IF a < b THEN a ELSE b

\* VideoOverlay.__init__ with the margins of the media and the page type; the
\* overlay is not attached, nothing plays, the slider is as built.
InitOverlay(m, page_type, size) ==
    /\ relative_page_margins = m
    /\ relative_margins = to_screen(page_type, m)
    /\ attached = FALSE
    /\ visible = FALSE
    /\ margin = [left |-> 0, right |-> 0, bottom |-> 0, top |-> 0]
    /\ alloc = size
    /\ playing = FALSE
    /\ effects = <<>>

InitTime(three) ==
    /\ maxval = TimeDen
    /\ time_format = DefaultFormat
    /\ progress = [value |-> 0, range |-> <<0, 0>>, increments |-> <<0, 0>>]
    /\ label = <<>>
    /\ set_time_calls = <<>>
    /\ py3 = three

InitCall ==
    /\ call = NoCall
    /\ ret = "none"
    /\ err = "none"

\* A slip: the margins on screen projected again, self.relative_margins in
\* the place of self.relative_page_margins.
UpdateMarginsForPage_Cumulative ==
    \E page_type \in PageTypes :
        /\ call' = [NoCall EXCEPT !.name = "update_margins_for_page",
                                  !.arg = page_type]
        /\ relative_margins' = to_screen(page_type, relative_margins)
        /\ effects' = <<>>
        /\ ret' = "none"
        /\ err' = "none"
        /\ UNCHANGED <<relative_page_margins, attached, visible, margin,
                       alloc, playing>>
        /\ UNCHANGED <<pvars, tvars>>

\* update_margins_for_page(page_type)
UpdateMarginsForPage ==
    \E page_type \in PageTypes :
        /\ call' = [NoCall EXCEPT !.name = "update_margins_for_page",
                                  !.arg = page_type]
        /\ relative_margins' = to_screen(page_type, relative_page_margins)
        /\ effects' = <<>>
        /\ ret' = "none"
        /\ err' = "none"
        /\ UNCHANGED <<relative_page_margins, attached, visible, margin,
                       alloc, playing>>
        /\ UNCHANGED <<pvars, tvars>>

\* resize()
Resize ==
    /\ call' = [NoCall EXCEPT !.name = "resize"]
    /\ margin' = resize(is_shown(attached), margin, alloc[1], alloc[2],
                        relative_margins)
    /\ effects' = resize_effects(is_shown(attached))
    /\ ret' = "none"
    /\ err' = "none"
    /\ UNCHANGED <<relative_page_margins, relative_margins, attached,
                   visible, alloc, playing>>
    /\ UNCHANGED <<pvars, tvars>>

\* A slip: only the left margin is looked at.
ShowBranch_LeftOnly(rm, att) ==
    IF rm[1] < 0 THEN "refuse"
    ELSE IF ~att THEN "attach"
    ELSE "raise"

\* show(): the branch it takes.  "refuse": a negative margin; "attach": the
\* overlay has no parent; "raise": it has one.
ShowBranch(rm, att) ==
    IF Min4(rm) < 0 THEN "refuse"
    ELSE IF ~att THEN "attach"
    ELSE "raise"

\* A slip: resize() called before the overlay is added to its parent.
Show_ResizeFirst ==
    LET branch == ShowBranch(relative_margins, attached) IN
    /\ call' = [NoCall EXCEPT !.name = "show"]
    /\ CASE branch = "refuse" ->
              /\ effects' = <<"warning">>
              /\ UNCHANGED <<attached, margin, visible>>
         [] branch = "attach" ->
              /\ margin' = resize(is_shown(attached), margin, alloc[1],
                                  alloc[2], relative_margins)
              /\ attached' = TRUE
              /\ effects' = resize_effects(is_shown(attached))
                                \o <<"add_overlay", "reorder_overlay",
                                     "queue_draw", "show">>
              /\ visible' = TRUE
         [] OTHER ->
              /\ effects' = <<"show">>
              /\ visible' = TRUE
              /\ UNCHANGED <<attached, margin>>
    /\ ret' = "none"
    /\ err' = "none"
    /\ UNCHANGED <<relative_page_margins, relative_margins, alloc, playing>>
    /\ UNCHANGED <<pvars, tvars>>

\* show()
Show ==
    LET branch == ShowBranch(relative_margins, attached) IN
    /\ call' = [NoCall EXCEPT !.name = "show"]
    /\ CASE branch = "refuse" ->
              /\ effects' = <<"warning">>
              /\ UNCHANGED <<attached, margin, visible>>
         [] branch = "attach" ->
              /\ attached' = TRUE
              /\ margin' = resize(is_shown(attached'), margin, alloc[1],
                                  alloc[2], relative_margins)
              /\ effects' = <<"add_overlay", "reorder_overlay">>
                                \o resize_effects(is_shown(attached'))
                                \o <<"queue_draw", "show">>
              /\ visible' = TRUE
         [] OTHER ->
              /\ effects' = <<"show">>
              /\ visible' = TRUE
              /\ UNCHANGED <<attached, margin>>
    /\ ret' = "none"
    /\ err' = "none"
    /\ UNCHANGED <<relative_page_margins, relative_margins, alloc, playing>>
    /\ UNCHANGED <<pvars, tvars>>

\* A slip: the overlay is hidden but left in its parent.
hide_removes_Never(att) == FALSE

\* do_hide(): whether it removes the overlay from its parent.
hide_removes(att) == att

\* do_hide()
DoHide ==
    /\ call' = [NoCall EXCEPT !.name = "do_hide"]
    /\ playing' = do_stop(playing)
    /\ visible' = FALSE
    /\ attached' = IF hide_removes(attached) THEN FALSE ELSE attached
    /\ effects' = <<"do_stop", "hide">>
                     \o (IF hide_removes(attached) THEN <<"remove">> ELSE <<>>)
    /\ ret' = FALSE
    /\ err' = "none"
    /\ UNCHANGED <<relative_page_margins, relative_margins, margin, alloc>>
    /\ UNCHANGED <<pvars, tvars>>

\* do_play() of a backend: the playback starts.
DoPlay ==
    /\ ~playing
    /\ call' = [NoCall EXCEPT !.name = "do_play"]
    /\ playing' = TRUE
    /\ effects' = <<"do_play">>
    /\ ret' = FALSE
    /\ err' = "none"
    /\ UNCHANGED <<relative_page_margins, relative_margins, attached,
                   visible, margin, alloc>>
    /\ UNCHANGED <<pvars, tvars>>

\* The toolkit allocates another size to the parent.
SizeAllocate ==
    \E size \in Allocs :
        /\ size # alloc
        /\ alloc' = size
        /\ call' = [NoCall EXCEPT !.name = "size_allocate"]
        /\ effects' = <<>>
        /\ ret' = "none"
        /\ err' = "none"
        /\ UNCHANGED <<relative_page_margins, relative_margins, attached,
                       visible, margin, playing>>
        /\ UNCHANGED <<pvars, tvars>>

\* update_range(max_time)
UpdateRange ==
    \E max_time \in MaxTimes :
        /\ call' = [NoCall EXCEPT !.name = "update_range"]
        /\ maxval' = max_time
        /\ progress' = [progress EXCEPT
                !.range = <<0, max_time>>,
                !.increments = <<Least(50 * TimeDen, max_time),
                                 Least(600 * TimeDen, max_time)>>]
        /\ time_format' = range_format(max_time, py3)
        /\ set_time_calls' = <<>>
        /\ ret' = "none"
        /\ err' = "none"
        /\ UNCHANGED <<label, py3>>
        /\ UNCHANGED <<pvars, ovars>>

\* A slip: the video is sought to the time the slider is set to.
UpdateProgress_Seeks ==
    \E time \in Times :
        /\ call' = [NoCall EXCEPT !.name = "update_progress", !.val = time]
        /\ progress' = [progress EXCEPT !.value = time]
        /\ set_time_calls' = <<time>>
        /\ ret' = "none"
        /\ err' = "none"
        /\ UNCHANGED <<maxval, time_format, label, py3>>
        /\ UNCHANGED <<pvars, ovars>>

\* update_progress(time): progress.set_value(time).  Setting the value from
\* the program does not emit the signal of a move by the user, which is the
\* one progress_moved is connected to.
UpdateProgress ==
    \E time \in Times :
        /\ call' = [NoCall EXCEPT !.name = "update_progress", !.val = time]
        /\ progress' = [progress EXCEPT !.value = time]
        /\ set_time_calls' = <<>>
        /\ ret' = "none"
        /\ err' = "none"
        /\ UNCHANGED <<maxval, time_format, label, py3>>
        /\ UNCHANGED <<pvars, ovars>>

\* format_millis(sc, prog): the scale asks for the text of its value.
FormatMillis ==
    /\ call' = [NoCall EXCEPT !.name = "format_millis"]
    /\ label' = format_millis(time_format, progress.value, py3)
    /\ set_time_calls' = <<>>
    /\ ret' = "none"
    /\ err' = "none"
    /\ UNCHANGED <<maxval, time_format, progress, py3>>
    /\ UNCHANGED <<pvars, ovars>>

\* The set_time callback of the media: it queues the seek and returns
\* nothing.
set_time(val) == "none"

\* progress_moved(rng, sc, val): the user moved the slider to val.  The
\* handler returns nothing true, so the toolkit goes on to set the value.
ProgressMoved ==
    \E val \in Times :
        /\ call' = [NoCall EXCEPT !.name = "progress_moved", !.val = val]
        /\ set_time_calls' = <<val>>
        /\ ret' = set_time(val)
        /\ progress' = [progress EXCEPT !.value = val]
        /\ err' = "none"
        /\ UNCHANGED <<maxval, time_format, label, py3>>
        /\ UNCHANGED <<pvars, ovars>>

vars == <<show_pointer, pointer_mode, pointer_pos, pointer, config, cursor,
          mapped, redraws, event, call, ret, err,
          relative_page_margins, relative_margins, attached, visible,
          margin, alloc, playing, effects,
          maxval, time_format, progress, label, set_time_calls, py3>>

\* A pointer, an overlay and a slider as constructed, for the specifications
\* of the other parts.
QuietPointer ==
    /\ config = [pointer_mode |-> "manual", pointer |-> "red"]
    /\ show_pointer = POINTER_HIDE
    /\ pointer_mode = POINTERMODE_MANUAL
    /\ pointer_pos = <<Frac(1, 2), Frac(1, 2)>>
    /\ pointer = "pointer_red"
    /\ cursor = [w \in Widgets |-> "parent"]
    /\ mapped = FALSE
    /\ redraws = 0
    /\ event = NoEvent

QuietOverlay == InitOverlay(<<0, 0, 0, 0>>, "FULL", <<1, 1>>)

QuietTime == InitTime(TRUE)

\* ------------------------------------- the pointer, its modes and events
\* The icon and the persisted colour are read and written by change_pointer
\* alone, which reads and writes nothing else: the colour menu is SpecMenu's.
Init ==
    /\ \E default_mode \in ModeNames :
          InitPointer(default_mode, "pointer_red")
    /\ InitCall /\ QuietOverlay /\ QuietTime

Next ==
    \/ MapWindows
    \/ ActivatePointermode
    \/ ChangePointermode
    \/ TrackPointer
    \/ TogglePointer

Spec == Init /\ [][Next]_vars

\* ------------------------- the pointer, its mode menu and its events
\* The mode is set by the mode menu alone, after the construction.
NextModes ==
    \/ MapWindows
    \/ ChangePointermode
    \/ TrackPointer
    \/ TogglePointer

SpecModes == Init /\ [][NextModes]_vars

\* --------------------- the pointer, with the content window's events only
\* Every button event is one of c_da, the drawing area of the content
\* window, and the mode is set by the mode menu alone.
NextContent ==
    \/ MapWindows
    \/ ChangePointermode
    \/ TrackPointer
    \/ TogglePointerOn("c_da")

SpecContent == Init /\ [][NextContent]_vars

\* ------------------------------------------------- the pointer's menus
InitM ==
    /\ \E default_mode \in ModeNames, default_color \in IconNames :
          InitPointer(default_mode, default_color)
    /\ InitCall /\ QuietOverlay /\ QuietTime

NextM ==
    \/ MapWindows
    \/ ChangePointer
    \/ ChangePointermode
    \/ ActivatePointermode

SpecMenu == InitM /\ [][NextM]_vars

\* ---------------------------------------------------------- the overlay
\* The media's rectangle lies in the page: opposite margins leave it room.
InitOverlayAny ==
    \E l \in Margins, t \in Margins, r \in Margins, b \in Margins,
       page_type \in PageTypes, size \in Allocs :
        /\ l + r <= MarginDen
        /\ t + b <= MarginDen
        /\ InitOverlay(<<l, t, r, b>>, page_type, size)

InitO == QuietPointer /\ InitCall /\ InitOverlayAny /\ QuietTime

NextO ==
    \/ UpdateMarginsForPage
    \/ Resize
    \/ Show
    \/ DoHide
    \/ DoPlay
    \/ SizeAllocate

SpecOverlay == InitO /\ [][NextO]_vars

\* ------------------------------------------------- the slider and its text
InitT ==
    /\ QuietPointer /\ InitCall /\ QuietOverlay
    /\ \E three \in BOOLEAN : InitTime(three)

NextT ==
    \/ UpdateRange
    \/ UpdateProgress
    \/ ProgressMoved
    \/ FormatMillis

SpecTime == InitT /\ [][NextT]_vars

\* ------------------------------------------------------------ the claims
\* The position is the event's coordinates over the widget's size, stated
\* by cross multiplication.
PosIs(pos, ev) ==
    /\ ev.ww > 0 /\ ev.wh > 0
    /\ pos[1][2] > 0 /\ pos[2][2] > 0
    /\ pos[1][1] * ev.ww = ev.ex * pos[1][2]
    /\ pos[2][1] * ev.wh = ev.ey * pos[2][2]

\* C1: in MANUAL mode a button press with Control held shows the pointer,
\* places it at the event's position and is consumed; a button release while
\* the pointer is shown hides it, requests a redraw and is consumed; any
\* other button event is not consumed and changes neither the visibility nor
\* the position.
C1_ManualToggle ==
    [][(call'.name = "toggle_pointer" /\ pointer_mode = POINTERMODE_MANUAL) =>
         IF call'.ctrl /\ call'.type = "BUTTON_PRESS"
         THEN /\ show_pointer' = POINTER_SHOW
              /\ event' # NoEvent
              /\ PosIs(pointer_pos', event')
              /\ ret' = TRUE
         ELSE IF show_pointer = POINTER_SHOW /\ call'.type = "BUTTON_RELEASE"
         THEN /\ show_pointer' = POINTER_HIDE
              /\ redraws' = 1
              /\ ret' = TRUE
         ELSE /\ ret' = FALSE
              /\ show_pointer' = show_pointer
              /\ pointer_pos' = pointer_pos]_vars

\* A release that hid a pointer a press had placed at (1/2, -1).
C1_Witness ==
    /\ call.name = "toggle_pointer"
    /\ call.type = "BUTTON_RELEASE"
    /\ ret = TRUE
    /\ pointer_mode = POINTERMODE_MANUAL
    /\ show_pointer = POINTER_HIDE
    /\ pointer_pos = <<<<1, 2>>, <<-1, 1>>>>

\* C2: in DISABLED or CONTINUOUS mode toggle_pointer consumes no button
\* event and leaves the visibility, the mode, the position and the cursors
\* as they are.
C2_ToggleIgnored ==
    [][(/\ call'.name = "toggle_pointer"
        /\ pointer_mode \in {POINTERMODE_DISABLED, POINTERMODE_CONTINEOUS}) =>
         /\ ret' = FALSE
         /\ show_pointer' = show_pointer
         /\ pointer_mode' = pointer_mode
         /\ pointer_pos' = pointer_pos
         /\ cursor' = cursor]_vars

\* A press with Control held, not consumed in CONTINUOUS mode.
C2_Witness ==
    /\ call.name = "toggle_pointer"
    /\ call.type = "BUTTON_PRESS"
    /\ call.ctrl
    /\ pointer_mode = POINTERMODE_CONTINEOUS
    /\ show_pointer = POINTER_SHOW
    /\ ret = FALSE

\* C3: activate_pointermode('continous') leaves (SHOWN, CONTINUOUS),
\* activate_pointermode('manual') leaves (HIDDEN, MANUAL) and
\* activate_pointermode('none') leaves (HIDDEN, DISABLED), whatever the state
\* before.
C3_ActivateMode ==
    [][call'.name = "activate_pointermode" =>
         /\ call'.arg = "continous" =>
               /\ show_pointer' = POINTER_SHOW
               /\ pointer_mode' = POINTERMODE_CONTINEOUS
         /\ call'.arg = "manual" =>
               /\ show_pointer' = POINTER_HIDE
               /\ pointer_mode' = POINTERMODE_MANUAL
         /\ call'.arg = "none" =>
               /\ show_pointer' = POINTER_HIDE
               /\ pointer_mode' = POINTERMODE_DISABLED]_vars

\* 'none' activated over a persisted continuous mode.
C3_Witness ==
    /\ call.name = "activate_pointermode"
    /\ call.arg = "none"
    /\ config.pointer_mode = "continous"
    /\ show_pointer = POINTER_HIDE
    /\ pointer_mode = POINTERMODE_DISABLED

\* C4: the pointer is never shown while its mode is DISABLED.
C4_ShownNotDisabled ==
    show_pointer = POINTER_SHOW => pointer_mode # POINTERMODE_DISABLED

\* The pointer shown by a press in MANUAL mode.
C4_Witness ==
    /\ call.name = "toggle_pointer"
    /\ show_pointer = POINTER_SHOW
    /\ pointer_mode = POINTERMODE_MANUAL

\* C5: track_pointer with the pointer shown sets the position to the event's
\* coordinates over the widget's size, requests a redraw and is consumed;
\* with the pointer hidden it leaves the position, requests no redraw and is
\* not consumed.  It changes neither the visibility nor the mode.
C5_TrackPointer ==
    [][call'.name = "track_pointer" =>
         /\ IF show_pointer = POINTER_SHOW
            THEN /\ event' # NoEvent
                 /\ PosIs(pointer_pos', event')
                 /\ redraws' = 1
                 /\ ret' = TRUE
            ELSE /\ pointer_pos' = pointer_pos
                 /\ redraws' = 0
                 /\ ret' = FALSE
         /\ show_pointer' = show_pointer
         /\ pointer_mode' = pointer_mode]_vars

\* A motion at (-1, 1) on a 2 x 1 widget, followed to (-1/2, 1).
C5_Witness ==
    /\ call.name = "track_pointer"
    /\ event = [ex |-> -1, ey |-> 1, ww |-> 2, wh |-> 1]
    /\ pointer_pos = <<<<-1, 2>>, <<1, 1>>>>
    /\ ret = TRUE

\* C6: show() with a negative relative margin attaches nothing, sets no
\* margin, requests no redraw and leaves the overlay attached or detached as
\* it was.
C6_ShowRefuses ==
    [][(call'.name = "show" /\ \E i \in 1 .. 4 : relative_margins[i] < 0) =>
         /\ attached' = attached
         /\ visible' = visible
         /\ margin' = margin
         /\ \A i \in 1 .. Len(effects') :
               effects'[i] \notin {"add_overlay", "reorder_overlay",
                                   "set_margins", "queue_draw"}]_vars

\* show() refused on an overlay that is attached, its left margin positive
\* and its right one negative since the page type changed.
C6_Witness ==
    /\ call.name = "show"
    /\ effects = <<"warning">>
    /\ attached
    /\ relative_margins[1] >= 0
    /\ relative_margins[3] < 0

\* C7: do_hide() leaves the playback stopped and the overlay detached and
\* returns False, whether the overlay was attached or not; a second do_hide()
\* right after changes nothing.
C7_HideIdempotent ==
    [][call'.name = "do_hide" =>
         /\ ~attached'
         /\ ~visible'
         /\ ~playing'
         /\ ret' = FALSE
         /\ call.name = "do_hide" =>
               UNCHANGED <<attached, visible, playing, margin, alloc,
                           relative_margins, relative_page_margins>>]_vars

\* do_hide() of an overlay that is not attached, after one that was shown.
C7_Witness ==
    /\ call.name = "do_hide"
    /\ effects = <<"do_stop", "hide">>
    /\ margin.left > 0
    /\ ~attached
    /\ ~playing

\* How a number of seconds below ten minutes reads as M:SS.
Digits == <<"0", "1", "2", "3", "4", "5", "6", "7", "8", "9">>

Clock(sec) ==
    <<Digits[(sec \div 60) + 1], ":", Digits[((sec % 60) \div 10) + 1],
      Digits[(sec % 10) + 1]>>

\* r is a whole number nearest to n / TimeDen.
Nearest(r, n) == 2 * Abs(r * TimeDen - n) <= TimeDen

ShownSecs == 0 .. (124 + MaxTime + 1)

\* C8: once update_range(max_time) ran, the total of the time format is
\* max_time rounded to a whole second when max_time > 0.5 and 1 second
\* otherwise, and for max_time > 0.5 format_millis of prog = max_time reads
\* 'M:SS / M:SS' with the same time on both sides.
C8_RangeTotal ==
    /\ time_format # DefaultFormat =>
          \E total \in ShownSecs :
              /\ IF 2 * maxval > TimeDen THEN Nearest(total, maxval)
                                         ELSE total = 1
              /\ time_format = <<"{:01}", ":", "{:02}", " ", "/", " ">>
                                   \o Clock(total)
    /\ (/\ call.name = "format_millis"
        /\ time_format # DefaultFormat
        /\ progress.value = maxval
        /\ 2 * maxval > TimeDen) =>
          \E sec \in ShownSecs :
              /\ Nearest(sec, maxval)
              /\ label = Clock(sec) \o <<" ", "/", " ">> \o Clock(sec)

\* 59 s and two units of 1/TimeDen, formatted after update_range of the same.
C8_Witness ==
    /\ call.name = "format_millis"
    /\ maxval = 59 * TimeDen + 2
    /\ progress.value = maxval
    /\ label = <<"1", ":", "0", "0", " ", "/", " ", "1", ":", "0", "0">>

\* C9: before any update_range, format_millis of a whole number s >= 0 of
\* seconds reads '<s div 60>:<s mod 60, two digits>': 0 reads 0:00, 59 reads
\* 0:59, 60 reads 1:00 and 125 reads 2:05.
C9_FormatMillis ==
    (/\ call.name = "format_millis"
     /\ time_format = DefaultFormat
     /\ progress.value % TimeDen = 0) =>
        LET s == progress.value \div TimeDen IN
        /\ label = Clock(s)
        /\ s = 0 => label = <<"0", ":", "0", "0">>
        /\ s = 59 => label = <<"0", ":", "5", "9">>
        /\ s = 60 => label = <<"1", ":", "0", "0">>
        /\ s = 125 => label = <<"2", ":", "0", "5">>

\* 125 seconds formatted by the format of the class.
C9_Witness ==
    /\ call.name = "format_millis"
    /\ time_format = DefaultFormat
    /\ progress.value = 125 * TimeDen
    /\ label = <<"2", ":", "0", "5">>

\* C10: change_pointer of an active item pointer_<colour> loads the icon when
\* the colour is one of red, green and blue, and fails with ValueError on any
\* other, then leaving the icon and the persisted colour as they were.
C10_LoadPointer ==
    [][(call'.name = "change_pointer" /\ call'.active) =>
         IF StripPointer(call'.arg) \in {"red", "green", "blue"}
         THEN /\ err' = "none"
              /\ pointer' = call'.arg
         ELSE /\ err' = "ValueError"
              /\ pointer' = pointer
              /\ config' = config]_vars

\* pointer_Red refused while the green icon is loaded and persisted.
C10_Witness ==
    /\ call.name = "change_pointer"
    /\ call.arg = "pointer_Red"
    /\ err = "ValueError"
    /\ pointer = "pointer_green"
    /\ config.pointer = "green"

\* C11: update_margins_for_page leaves relative_page_margins as they were at
\* construction and sets relative_margins to the projection of the page type
\* and of relative_page_margins alone, whatever relative_margins were before;
\* a second call with the same page type leaves relative_margins identical.
C11_MarginsOfPage ==
    [][/\ relative_page_margins' = relative_page_margins
       /\ call'.name = "update_margins_for_page" =>
             /\ relative_margins' = to_screen(call'.arg, relative_page_margins)
             /\ (call.name = "update_margins_for_page"
                    /\ call.arg = call'.arg) =>
                   relative_margins' = relative_margins]_vars

\* The margins of the left half on screen, on an overlay that was shown
\* under another page type.
C11_Witness ==
    /\ call.name = "update_margins_for_page"
    /\ call.arg = "LEFT"
    /\ attached
    /\ relative_page_margins = <<1, 0, 0, 1>>
    /\ relative_margins = <<2, 0, 0, 1>>

\* C12: in every state reached by show, hide, resize and
\* update_margins_for_page, an overlay that is shown (attached to its parent)
\* has four non-negative relative margins.
C12_ShownNonNegative ==
    is_shown(attached) => \A i \in 1 .. 4 : relative_margins[i] >= 0

\* C13: after any sequence of toggle_pointer and track_pointer events, those
\* with coordinates outside the widget included, both components of the
\* pointer position lie between 0 and 1.
C13_PositionInUnitSquare ==
    \A i \in 1 .. 2 :
        /\ pointer_pos[i][2] > 0
        /\ 0 <= pointer_pos[i][1]
        /\ pointer_pos[i][1] <= pointer_pos[i][2]

\* Where a toolkit call stands among those of the last handler, 0 if it was
\* not made.
EffectAt(effs, e) ==
    IF \E i \in 1 .. Len(effs) : effs[i] = e
    THEN CHOOSE i \in 1 .. Len(effs) : effs[i] = e
    ELSE 0

\* C14: show() on a detached overlay whose margins are all non-negative
\* attaches it first, then sets the pixel margins to the parent's size times
\* the relative margins (left = w*m[0], top = h*m[1], right = w*m[2],
\* bottom = h*m[3]), then requests a redraw: the resize inside show() is not
\* skipped by its not-shown guard; show() on an attached overlay does not
\* attach it again.
C14_ShowAttaches ==
    [][(call'.name = "show" /\ \A i \in 1 .. 4 : relative_margins[i] >= 0) =>
         IF ~attached
         THEN /\ attached'
              /\ 0 < EffectAt(effects', "add_overlay")
              /\ EffectAt(effects', "add_overlay")
                    < EffectAt(effects', "set_margins")
              /\ EffectAt(effects', "set_margins")
                    < EffectAt(effects', "queue_draw")
              /\ margin'.left = alloc[1] * relative_margins[1]
              /\ margin'.top = alloc[2] * relative_margins[2]
              /\ margin'.right = alloc[1] * relative_margins[3]
              /\ margin'.bottom = alloc[2] * relative_margins[4]
         ELSE /\ attached'
              /\ EffectAt(effects', "add_overlay") = 0
              /\ margin' = margin]_vars

\* An overlay attached by show() in a parent 2 wide and 1 high.
C14_Witness ==
    /\ call.name = "show"
    /\ effects = <<"add_overlay", "reorder_overlay", "set_margins",
                   "queue_draw", "show">>
    /\ alloc = <<2, 1>>
    /\ relative_margins = <<1, 0, 0, 2>>
    /\ margin = [left |-> 2, right |-> 0, bottom |-> 2, top |-> 0]

\* C15: resize() on an overlay that is not shown changes no pixel margin and
\* nothing else of the overlay, and calls nothing of the toolkit.
C15_ResizeNotShown ==
    [][(call'.name = "resize" /\ ~is_shown(attached)) =>
         /\ margin' = margin
         /\ effects' = <<>>
         /\ UNCHANGED <<relative_page_margins, relative_margins, attached,
                        visible, alloc, playing>>
         /\ UNCHANGED <<maxval, time_format, progress, label>>]_vars

\* resize() with no parent, the left margin kept although the present size
\* and relative margins would give another.
C15_Witness ==
    /\ call.name = "resize"
    /\ ~attached
    /\ effects = <<>>
    /\ margin.left # alloc[1] * relative_margins[1]
    /\ relative_margins[1] >= 0

\* The mode a persisted name stands for.
ModeOfName(name) ==
    CASE name = "continous" -> POINTERMODE_CONTINEOUS
      [] name = "manual" -> POINTERMODE_MANUAL
      [] name = "none" -> POINTERMODE_DISABLED

\* C16: change_pointermode of an active item persists the name of the mode
\* and activates that mode, and of an inactive item does nothing; so after
\* the construction from a valid persisted mode and any sequence of
\* change_pointermode, toggle_pointer and track_pointer calls, the persisted
\* 'pointer_mode' names the mode in memory.
C16_ModePersisted ==
    /\ [](/\ config.pointer_mode \in ModeNames
          /\ ModeOfName(config.pointer_mode) = pointer_mode)
    /\ [][call'.name = "change_pointermode" =>
            IF call'.active
            THEN /\ config'.pointer_mode = call'.arg
                 /\ pointer_mode' = ModeOfName(call'.arg)
            ELSE UNCHANGED <<config, pointer_mode, show_pointer, cursor,
                             pointer_pos, pointer>>]_vars

\* The mode 'none' chosen in the menu while the pointer was shown by a press
\* on c_da.
C16_Witness ==
    /\ call.name = "change_pointermode"
    /\ call.active
    /\ call.arg = "none"
    /\ config.pointer_mode = "none"
    /\ pointer_mode = POINTERMODE_DISABLED
    /\ cursor["c_da"] = "invisible"

\* C17: update_progress(t) only sets the slider to t and never calls
\* set_time, neither itself nor through progress_moved; set_time is called
\* from progress_moved only, once, with the value the user chose.
C17_ProgressNoSeek ==
    [][/\ call'.name = "update_progress" =>
             /\ progress'.value = call'.val
             /\ progress'.range = progress.range
             /\ progress'.increments = progress.increments
             /\ set_time_calls' = <<>>
             /\ UNCHANGED <<maxval, time_format, label>>
       /\ set_time_calls' # <<>> =>
             /\ call'.name = "progress_moved"
             /\ set_time_calls' = <<call'.val>>
       /\ call'.name = "progress_moved" => set_time_calls' = <<call'.val>>]_vars

\* The slider set by update_progress to 59.5 s and nothing sought; the time
\* text is still the one formatted at 0 s.
C17_Witness ==
    /\ call.name = "update_progress"
    /\ call.val = 59 * TimeDen + 2
    /\ progress.value = 59 * TimeDen + 2
    /\ set_time_calls = <<>>
    /\ label = <<"0", ":", "0", "0">>

\* C18: after any sequence of activate_pointermode (with or without a mode),
\* change_pointermode, toggle_pointer and track_pointer calls, the pointer is
\* shown whenever the mode is the continuous one.
C18_ContinuousShown ==
    pointer_mode = POINTERMODE_CONTINEOUS => show_pointer = POINTER_SHOW

\* A button release in the continuous mode, ignored: the pointer stays shown.
C18_Witness ==
    /\ call.name = "toggle_pointer"
    /\ call.type = "BUTTON_RELEASE"
    /\ ret = FALSE
    /\ pointer_mode = POINTERMODE_CONTINEOUS
    /\ show_pointer = POINTER_SHOW

\* C19: the pointer component leaves a widget's cursor invisible only while
\* the pointer is shown: whenever the pointer is hidden, by a release or by a
\* change of mode while the button is pressed, the cursor of every widget
\* that toggle_pointer made invisible has been restored.
C19_CursorRestored ==
    show_pointer = POINTER_HIDE =>
        \A w \in Widgets : cursor[w] # "invisible"

====
